---- MODULE Spec2Model ----
(***************************************************************************)
(* Validation engine of API-Datas-Comemorativas: the CPF / CNPJ / e-mail   *)
(* / password validators and the time-bounded validationCache in front of  *)
(* the first three, as written in src/API-Datas-Comemorativas/index.js,    *)
(* and, at the end, GET /api/hoje of the calendar API with its response    *)
(* cache, as written in src/unnamed/part_000.                              *)
(*                                                                         *)
(* Strings are sequences of one-character strings.  A raw value is a       *)
(* record [t, s]: t = "str" with the characters in s, or t = "null" /      *)
(* "undefined" for an absent value.  Time is Date.now() in milliseconds.   *)
(***************************************************************************)
EXTENDS Integers, Sequences, FiniteSets, TLC

VARIABLES now, nextSweep, validationCache, computed, last, calls, inp,
          responseCache, nextCacheSweep, response

\* the state of the calendar API (src/unnamed/part_000), a service of its own
apiVars == <<responseCache, nextCacheSweep, response>>

\* the state of the validation service and of its tests
engineVars == <<nextSweep, validationCache, computed, last, calls, inp>>

vars == <<now, engineVars, apiVars>>

(***************************************************************************)
(* Bounds of the model.                                                    *)
(***************************************************************************)
MaxCalls == 3
MaxTime == 390000

(***************************************************************************)
(* Characters and JavaScript string primitives.                            *)
(***************************************************************************)
DigitChars == <<"0", "1", "2", "3", "4", "5", "6", "7", "8", "9">>

Range(f) == {f[i] : i \in DOMAIN f}

DigitSet == Range(DigitChars)

IsDigit(c) == c \in DigitSet

UpperChars ==
    <<"A", "B", "C", "D", "E", "F", "G", "H", "I", "J", "K", "L", "M",
      "N", "O", "P", "Q", "R", "S", "T", "U", "V", "W", "X", "Y", "Z">>

LowerChars ==
    <<"a", "b", "c", "d", "e", "f", "g", "h", "i", "j", "k", "l", "m",
      "n", "o", "p", "q", "r", "s", "t", "u", "v", "w", "x", "y", "z">>

UpperSet == Range(UpperChars)

LowerSet == Range(LowerChars)

IsUpper(c) == c \in UpperSet

IsLower(c) == c \in LowerSet

IsAlnum(c) == IsUpper(c) \/ IsLower(c) \/ IsDigit(c)

\* \s of a JavaScript regular expression: space, tab and the line terminators
SpaceSet == {" ", "\t", "\n"}

IsSpace(c) == c \in SpaceSet

\* the characters the dot of a regular expression does not match
IsLineTerminator(c) == c \in {"\n"}

\* parseInt of a one-digit string
DigitValue == [c \in DigitSet |-> (CHOOSE i \in 1..10 : DigitChars[i] = c) - 1]

parseInt(c) == DigitValue[c]

\* String(d) for a digit 0..9, as in the concatenation base + firstDigit
DigitToChar(d) == DigitChars[d + 1]

Str(s) == [t |-> "str", s |-> s]
Null == [t |-> "null", s |-> <<>>]
Undefined == [t |-> "undefined", s |-> <<>>]

\* `${value}` : the template literal's conversion of a value to a string
TemplateString(value) ==
    CASE value.t = "null" -> <<"n", "u", "l", "l">>
      [] value.t = "undefined" -> <<"u", "n", "d", "e", "f", "i", "n", "e", "d">>
      [] OTHER -> value.s

\* (raw || '').toString() : absent values and the empty string give ''
OrEmpty(raw) == IF raw.t = "str" THEN raw.s ELSE <<>>

TypeChars(type) ==
    CASE type = "cpf" -> <<"c", "p", "f">>
      [] type = "cnpj" -> <<"c", "n", "p", "j">>
      [] type = "email" -> <<"e", "m", "a", "i", "l">>
      [] OTHER -> <<"p", "a", "s", "s", "w", "o", "r", "d">>

(***************************************************************************)
(* The validation cache.                                                   *)
(***************************************************************************)
CACHE_TTL == 5 * 60 * 1000

SWEEP_INTERVAL == 60 * 1000

\* The SHA-256 digest is taken to be injective: a key is the digested text.
getCacheKey(type, value) == TypeChars(type) \o <<":">> \o TemplateString(value)

\* Expired with the comparison made inclusive: >= for >
ExpiredAtTtl(timestamp, t) == t - timestamp >= CACHE_TTL

Expired(timestamp, t) == t - timestamp > CACHE_TTL

clearExpiredCacheMap(cache, t) ==
    [k \in {key \in DOMAIN cache : ~Expired(cache[key].timestamp, t)} |-> cache[k]]

\* CacheSet with the validationCache.set call forgotten
CacheSetForgotten(cache, key, result, t) == cache

CacheSet(cache, key, result, t) ==
    [k \in DOMAIN cache \cup {key} |->
        IF k = key THEN [result |-> result, timestamp |-> t] ELSE cache[k]]

(***************************************************************************)
(* Utils.                                                                  *)
(***************************************************************************)
onlyDigits(s) == SelectSeq(OrEmpty(s), IsDigit)

\* isRepeated with the quantifier one too long: {minLength,} for {minLength - 1,}
isRepeatedOneMore(digits, minLength) ==
    /\ Len(digits) >= minLength + 1
    /\ \A i \in 1..Len(digits) : digits[i] = digits[1]

isRepeated(digits, minLength) ==
    /\ Len(digits) >= minLength
    /\ Len(digits) >= 1
    /\ \A i \in 1..Len(digits) : digits[i] = digits[1]

(***************************************************************************)
(* Error messages (diacritics dropped).                                    *)
(***************************************************************************)
ERR_CPF_LENGTH == "CPF deve ter exatamente 11 digitos"
ERR_CPF_REPEATED == "CPF invalido (sequencia repetida)"
ERR_CNPJ_LENGTH == "CNPJ deve ter exatamente 14 digitos"
ERR_CNPJ_REPEATED == "CNPJ invalido (sequencia repetida)"
ERR_CHECK_DIGITS == "Digitos verificadores invalidos"

(***************************************************************************)
(* validateCPF.                                                            *)
(***************************************************************************)
RECURSIVE cpfSum(_, _, _)
cpfSum(base, factor, i) ==
    IF i > Len(base) THEN 0
    ELSE parseInt(base[i]) * (factor - (i - 1)) + cpfSum(base, factor, i + 1)

\* cpfCalcCheckDigit with remainder <= 2 for remainder < 2
cpfCalcCheckDigitOffByOne(base, factor) ==
    LET remainder == cpfSum(base, factor, 1) % 11
    IN  IF remainder <= 2 THEN 0 ELSE 11 - remainder

cpfCalcCheckDigit(base, factor) ==
    LET remainder == cpfSum(base, factor, 1) % 11
    IN  IF remainder < 2 THEN 0 ELSE 11 - remainder

\* cpfFormatErrors stopping at the first error found
cpfFormatErrorsFirstOnly(digits) ==
    IF Len(digits) # 11 THEN <<ERR_CPF_LENGTH>>
    ELSE IF isRepeated(digits, 11) THEN <<ERR_CPF_REPEATED>> ELSE <<>>

cpfFormatErrors(digits) ==
    (IF Len(digits) # 11 THEN <<ERR_CPF_LENGTH>> ELSE <<>>)
    \o (IF isRepeated(digits, 11) THEN <<ERR_CPF_REPEATED>> ELSE <<>>)

cpfCheckDigitsResult(digits) ==
    LET base == SubSeq(digits, 1, 9)
        firstDigit == cpfCalcCheckDigit(base, 10)
        secondDigit == cpfCalcCheckDigit(base \o <<DigitToChar(firstDigit)>>, 11)
        valid == firstDigit = parseInt(digits[10]) /\ secondDigit = parseInt(digits[11])
    IN  IF valid
        THEN [valid |-> TRUE,
              normalized |-> SubSeq(digits, 1, 3) \o <<".">> \o SubSeq(digits, 4, 6)
                             \o <<".">> \o SubSeq(digits, 7, 9) \o <<"-">>
                             \o SubSeq(digits, 10, Len(digits)),
              digits |-> digits]
        ELSE [valid |-> FALSE, errors |-> <<ERR_CHECK_DIGITS>>]

cpfCompute(raw) ==
    LET digits == onlyDigits(raw)
        errors == cpfFormatErrors(digits)
    IN  IF Len(errors) > 0
        THEN [valid |-> FALSE, errors |-> errors]
        ELSE cpfCheckDigitsResult(digits)

(***************************************************************************)
(* validateCNPJ.                                                           *)
(***************************************************************************)
factors1 == <<5, 4, 3, 2, 9, 8, 7, 6, 5, 4, 3, 2>>
factors2 == <<6, 5, 4, 3, 2, 9, 8, 7, 6, 5, 4, 3, 2>>

RECURSIVE cnpjSum(_, _, _)
cnpjSum(base, factors, i) ==
    IF i > Len(factors) THEN 0
    ELSE parseInt(base[i]) * factors[i] + cnpjSum(base, factors, i + 1)

\* cnpjCalcCheckDigit with remainder <= 2 for remainder < 2
cnpjCalcCheckDigitOffByOne(base, factors) ==
    LET remainder == cnpjSum(base, factors, 1) % 11
    IN  IF remainder <= 2 THEN 0 ELSE 11 - remainder

cnpjCalcCheckDigit(base, factors) ==
    LET remainder == cnpjSum(base, factors, 1) % 11
    IN  IF remainder < 2 THEN 0 ELSE 11 - remainder

cnpjFormatErrors(digits) ==
    (IF Len(digits) # 14 THEN <<ERR_CNPJ_LENGTH>> ELSE <<>>)
    \o (IF isRepeated(digits, 14) THEN <<ERR_CNPJ_REPEATED>> ELSE <<>>)

cnpjCheckDigitsResult(digits) ==
    LET base == SubSeq(digits, 1, 12)
        firstDigit == cnpjCalcCheckDigit(base, factors1)
        secondDigit == cnpjCalcCheckDigit(base \o <<DigitToChar(firstDigit)>>, factors2)
        valid == firstDigit = parseInt(digits[13]) /\ secondDigit = parseInt(digits[14])
    IN  IF valid
        THEN [valid |-> TRUE,
              normalized |-> SubSeq(digits, 1, 2) \o <<".">> \o SubSeq(digits, 3, 5)
                             \o <<".">> \o SubSeq(digits, 6, 8) \o <<"/">>
                             \o SubSeq(digits, 9, 12) \o <<"-">>
                             \o SubSeq(digits, 13, Len(digits)),
              digits |-> digits]
        ELSE [valid |-> FALSE, errors |-> <<ERR_CHECK_DIGITS>>]

cnpjCompute(raw) ==
    LET digits == onlyDigits(raw)
        errors == cnpjFormatErrors(digits)
    IN  IF Len(errors) > 0
        THEN [valid |-> FALSE, errors |-> errors]
        ELSE cnpjCheckDigitsResult(digits)

(***************************************************************************)
(* String helpers of validateEmail and validatePassword.                   *)
(***************************************************************************)
LowerOf == [c \in UpperSet |-> LowerChars[CHOOSE i \in 1..26 : UpperChars[i] = c]]

toLowerCaseChar(c) == IF IsUpper(c) THEN LowerOf[c] ELSE c

toLowerCase(s) == [i \in 1..Len(s) |-> toLowerCaseChar(s[i])]

RECURSIVE trimStart(_)
trimStart(s) ==
    IF Len(s) > 0 /\ IsSpace(s[1]) THEN trimStart(Tail(s)) ELSE s

RECURSIVE trimEnd(_)
trimEnd(s) ==
    IF Len(s) > 0 /\ IsSpace(s[Len(s)]) THEN trimEnd(SubSeq(s, 1, Len(s) - 1)) ELSE s

trim(s) == trimEnd(trimStart(s))

\* index of the first occurrence of c in s, 0 when there is none
IndexOf(s, c) ==
    IF \E i \in 1..Len(s) : s[i] = c
    THEN CHOOSE i \in 1..Len(s) : s[i] = c /\ \A j \in 1..(i - 1) : s[j] # c
    ELSE 0

\* s.split(sep): the pieces between the occurrences of sep
RECURSIVE split(_, _)
split(s, sep) ==
    LET i == IndexOf(s, sep)
    IN  IF i = 0 THEN <<s>>
        ELSE <<SubSeq(s, 1, i - 1)>> \o split(SubSeq(s, i + 1, Len(s)), sep)

\* /[class]/.test(s) for a character class given as the set of its characters
Test(s, class) == \E i \in 1..Len(s) : s[i] \in class

(***************************************************************************)
(* validateEmail.                                                          *)
(***************************************************************************)
ERR_EMAIL_EMPTY == "E-mail nao informado"
ERR_EMAIL_LONG == "E-mail muito longo"
ERR_EMAIL_FORMAT == "Formato de e-mail invalido"
ERR_EMAIL_LOCAL_LONG == "Parte local do e-mail muito longa"

\* the grave accent, which a string of this language cannot hold
BACKTICK == "<grave>"

\* the class of the local part: letters, digits and . ! # $ % & ' * + / = ? ^ _
\* { | } ~ - and the grave accent
LocalPunctuation ==
    {".", "!", "#", "$", "%", "&", "'", "*", "+", "/", "=", "?", "^",
     "_", BACKTICK, "{", "|", "}", "~", "-"}

IsLocalChar(c) == IsAlnum(c) \/ c \in LocalPunctuation

\* a domain label: 1 to 63 letters, digits or hyphens, no hyphen first or last
IsDomainLabel(l) ==
    /\ Len(l) >= 1
    /\ Len(l) <= 63
    /\ IsAlnum(l[1])
    /\ IsAlnum(l[Len(l)])
    /\ \A i \in 1..Len(l) : IsAlnum(l[i]) \/ l[i] = "-"

emailRegexTest(s) ==
    LET at == IndexOf(s, "@")
        local == SubSeq(s, 1, at - 1)
        domain == SubSeq(s, at + 1, Len(s))
        labels == split(domain, ".")
    IN  /\ at > 0
        /\ Len(local) >= 1
        /\ \A i \in 1..Len(local) : IsLocalChar(local[i])
        /\ \A i \in 1..Len(labels) : IsDomainLabel(labels[i])

emailErrors(s) ==
    (IF Len(s) = 0 THEN <<ERR_EMAIL_EMPTY>> ELSE <<>>)
    \o (IF Len(s) > 254 THEN <<ERR_EMAIL_LONG>> ELSE <<>>)
    \o (IF ~emailRegexTest(s) THEN <<ERR_EMAIL_FORMAT>> ELSE <<>>)
    \o (IF Len(split(s, "@")[1]) > 64 THEN <<ERR_EMAIL_LOCAL_LONG>> ELSE <<>>)

emailCompute(raw) ==
    LET s == toLowerCase(trim(OrEmpty(raw)))
        errors == emailErrors(s)
    IN  IF Len(errors) > 0
        THEN [valid |-> FALSE, errors |-> errors]
        ELSE [valid |-> TRUE, normalized |-> s]

(***************************************************************************)
(* validatePassword.                                                       *)
(***************************************************************************)
ERR_PW_UPPER == "Deve conter pelo menos 1 letra maiuscula"
ERR_PW_LOWER == "Deve conter pelo menos 1 letra minuscula"
ERR_PW_NUMBER == "Deve conter pelo menos 1 numero"
ERR_PW_SYMBOL == "Deve conter pelo menos 1 simbolo"
ERR_PW_COMMON == "Senha muito comum"
ERR_PW_SPACE == "Nao pode iniciar ou terminar com espaco"

ErrPwMin(n) == "Senha deve ter no minimo " \o ToString(n) \o " caracteres"

ErrPwMax(n) == "Senha deve ter no maximo " \o ToString(n) \o " caracteres"

ErrPwConsecutive(n) ==
    "Nao pode ter mais de " \o ToString(n) \o " caracteres consecutivos iguais"

\* policy.field ?? default : a policy is a function on the fields it carries
OrDefault(policy, field, default) ==
    IF field \in DOMAIN policy THEN policy[field] ELSE default

pwConfig(policy) ==
    [minLength |-> OrDefault(policy, "minLength", 8),
     maxLength |-> OrDefault(policy, "maxLength", 128),
     requireUpper |-> OrDefault(policy, "upper", TRUE),
     requireLower |-> OrDefault(policy, "lower", TRUE),
     requireNumber |-> OrDefault(policy, "number", TRUE),
     requireSymbol |-> OrDefault(policy, "symbol", TRUE),
     forbidCommon |-> OrDefault(policy, "forbidCommon", TRUE),
     maxConsecutive |-> OrDefault(policy, "maxConsecutive", 3)]

\* the class of the symbol check: ! @ # $ % ^ & * ( ) , . ? " : { } | < > _ - + =
\* [ ] \ ; / ' ~ and the grave accent
SymbolSet ==
    {"!", "@", "#", "$", "%", "^", "&", "*", "(", ")", ",", ".", "?", "\"",
     ":", "{", "}", "|", "<", ">", "_", "-", "+", "=", "[", "]", "\\", ";",
     "/", BACKTICK, "'", "~"}

\* /(.)\1{2,}/ : three equal characters in a row, the dot matching no line terminator
hasConsecutiveRun(s) ==
    \E i \in 1..(Len(s) - 2) :
        /\ ~IsLineTerminator(s[i])
        /\ s[i + 1] = s[i]
        /\ s[i + 2] = s[i]

commonPasswords ==
    {<<"1", "2", "3", "4", "5", "6">>,
     <<"p", "a", "s", "s", "w", "o", "r", "d">>,
     <<"1", "2", "3", "4", "5", "6", "7", "8", "9">>,
     <<"q", "w", "e", "r", "t", "y">>,
     <<"a", "b", "c", "1", "2", "3">>,
     <<"1", "1", "1", "1", "1", "1">>,
     <<"1", "2", "3", "1", "2", "3">>,
     <<"s", "e", "n", "h", "a">>,
     <<"a", "d", "m", "i", "n">>,
     <<"i", "l", "o", "v", "e", "y", "o", "u">>}

\* /^\s|\s$/
hasEdgeSpace(s) == Len(s) > 0 /\ (IsSpace(s[1]) \/ IsSpace(s[Len(s)]))

\* /[^A-Za-z0-9]/.test(s)
hasNonAlnum(s) == \E i \in 1..Len(s) : ~IsAlnum(s[i])

pwErrors(s, config) ==
    (IF Len(s) < config.minLength THEN <<ErrPwMin(config.minLength)>> ELSE <<>>)
    \o (IF Len(s) > config.maxLength THEN <<ErrPwMax(config.maxLength)>> ELSE <<>>)
    \o (IF config.requireUpper /\ ~Test(s, UpperSet) THEN <<ERR_PW_UPPER>> ELSE <<>>)
    \o (IF config.requireLower /\ ~Test(s, LowerSet) THEN <<ERR_PW_LOWER>> ELSE <<>>)
    \o (IF config.requireNumber /\ ~Test(s, DigitSet) THEN <<ERR_PW_NUMBER>> ELSE <<>>)
    \o (IF config.requireSymbol /\ ~Test(s, SymbolSet) THEN <<ERR_PW_SYMBOL>> ELSE <<>>)
    \o (IF hasConsecutiveRun(s) THEN <<ErrPwConsecutive(config.maxConsecutive)>> ELSE <<>>)
    \o (IF config.forbidCommon /\ toLowerCase(s) \in commonPasswords
        THEN <<ERR_PW_COMMON>> ELSE <<>>)
    \o (IF hasEdgeSpace(s) THEN <<ERR_PW_SPACE>> ELSE <<>>)

\* pwStrength counting the symbol class of the policy check for [^A-Za-z0-9]
pwStrengthSymbolClass(s) ==
    (IF Len(s) >= 12 THEN 2 ELSE 0)
    + (IF Test(s, UpperSet) /\ Test(s, LowerSet) THEN 1 ELSE 0)
    + (IF Test(s, DigitSet) THEN 1 ELSE 0)
    + (IF Test(s, SymbolSet) THEN 2 ELSE 0)

pwStrength(s) ==
    (IF Len(s) >= 12 THEN 2 ELSE 0)
    + (IF Test(s, UpperSet) /\ Test(s, LowerSet) THEN 1 ELSE 0)
    + (IF Test(s, DigitSet) THEN 1 ELSE 0)
    + (IF hasNonAlnum(s) THEN 2 ELSE 0)

pwCompute(raw, policy) ==
    LET s == OrEmpty(raw)
        errors == pwErrors(s, pwConfig(policy))
        strength == pwStrength(s)
    IN  IF Len(errors) = 0
        THEN [valid |-> TRUE, strength |-> strength, length |-> Len(s)]
        ELSE [valid |-> FALSE, errors |-> errors, strength |-> strength,
              length |-> Len(s)]

(***************************************************************************)
(* State.  validationCache is the Map: a function from the keys it holds   *)
(* to {result, timestamp}.  last records the most recent validator call    *)
(* and what it returned; computed records, per (type, raw), when the       *)
(* validator's own computation last ran and what it produced (the call     *)
(* counter of a test); calls counts validator calls; inp is the input of   *)
(* the single-call specifications.                                         *)
(***************************************************************************)
EmptyMap == [k \in {} |-> 0]

NoPolicy == [f \in {} |-> TRUE]

NoCall ==
    [op |-> "none", raw |-> Undefined, policy |-> NoPolicy,
     result |-> [valid |-> FALSE], hit |-> FALSE, timestamp |-> 0, at |-> 0]

NoInput == [raw |-> Undefined, policy |-> NoPolicy]

NoResponse == [op |-> "none"]

\* the calendar API before its first request
ApiInit ==
    /\ responseCache = EmptyMap
    /\ nextCacheSweep = 60 * 1000
    /\ response = NoResponse

TICK == 30 * 1000

Computation(type, raw, result) ==
    [k \in DOMAIN computed \cup {<<type, raw>>} |->
        IF k = <<type, raw>> THEN [result |-> result, at |-> now] ELSE computed[k]]

\* CachedValidate with a hit that stores the entry again under the current time
CachedValidateTouch(type, raw, fresh) ==
    LET cacheKey == getCacheKey(type, raw)
    IN  IF cacheKey \in DOMAIN validationCache
        THEN /\ last' = [op |-> type, raw |-> raw, policy |-> NoPolicy,
                         result |-> validationCache[cacheKey].result, hit |-> TRUE,
                         timestamp |-> validationCache[cacheKey].timestamp, at |-> now]
             /\ validationCache' =
                    CacheSet(validationCache, cacheKey, validationCache[cacheKey].result, now)
             /\ UNCHANGED computed
        ELSE LET result == fresh
             IN  /\ validationCache' = CacheSet(validationCache, cacheKey, result, now)
                 /\ computed' = Computation(type, raw, result)
                 /\ last' = [op |-> type, raw |-> raw, policy |-> NoPolicy,
                             result |-> result, hit |-> FALSE, timestamp |-> now,
                             at |-> now]

\* The cache prologue and epilogue shared by validateCPF, validateCNPJ and
\* validateEmail: return cached.result when the key is held, else compute,
\* store {result, timestamp: Date.now()} and return.
CachedValidate(type, raw, fresh) ==
    LET cacheKey == getCacheKey(type, raw)
    IN  IF cacheKey \in DOMAIN validationCache
        THEN /\ last' = [op |-> type, raw |-> raw, policy |-> NoPolicy,
                         result |-> validationCache[cacheKey].result, hit |-> TRUE,
                         timestamp |-> validationCache[cacheKey].timestamp, at |-> now]
             /\ UNCHANGED <<validationCache, computed>>
        ELSE LET result == fresh
             IN  /\ validationCache' = CacheSet(validationCache, cacheKey, result, now)
                 /\ computed' = Computation(type, raw, result)
                 /\ last' = [op |-> type, raw |-> raw, policy |-> NoPolicy,
                             result |-> result, hit |-> FALSE, timestamp |-> now,
                             at |-> now]

validateCPF(raw) ==
    /\ CachedValidate("cpf", raw, cpfCompute(raw))
    /\ calls' = calls + 1
    /\ UNCHANGED <<now, nextSweep, inp, apiVars>>

validateCNPJ(raw) ==
    /\ CachedValidate("cnpj", raw, cnpjCompute(raw))
    /\ calls' = calls + 1
    /\ UNCHANGED <<now, nextSweep, inp, apiVars>>

validateEmail(raw) ==
    /\ CachedValidate("email", raw, emailCompute(raw))
    /\ calls' = calls + 1
    /\ UNCHANGED <<now, nextSweep, inp, apiVars>>

\* validatePassword never touches validationCache
validatePassword(raw, policy) ==
    /\ LET result == pwCompute(raw, policy)
       IN  /\ last' = [op |-> "password", raw |-> raw, policy |-> policy,
                       result |-> result, hit |-> FALSE, timestamp |-> now, at |-> now]
           /\ computed' = Computation("password", raw, result)
    /\ calls' = calls + 1
    /\ UNCHANGED <<now, nextSweep, validationCache, inp, apiVars>>

\* setInterval(clearExpiredCache, 60 * 1000)
clearExpiredCache ==
    /\ now >= nextSweep
    /\ validationCache' = clearExpiredCacheMap(validationCache, now)
    /\ nextSweep' = nextSweep + SWEEP_INTERVAL
    /\ UNCHANGED <<now, computed, last, calls, inp, apiVars>>

\* The clock advances; a due sweep runs before it advances again.  Nothing is
\* observed after the last call, so the clock stops with it.
Tick ==
    /\ now < nextSweep
    /\ now + TICK <= MaxTime
    /\ calls < MaxCalls
    /\ now' = now + TICK
    /\ UNCHANGED <<nextSweep, validationCache, computed, last, calls, inp, apiVars>>

(***************************************************************************)
(* Spec: the validators behind the cache, the clock and the sweep.         *)
(***************************************************************************)
CpfRaws == {Str(<<"5", "2", "9", "9", "8", "2", "2", "4", "7", "2", "5">>)}

CnpjRaws == {Str(<<"1", "1", "2", "2", "2", "3", "3", "3", "0", "0", "0", "1", "8", "1">>)}

EmailRaws ==
    {Null, Str(<<"n", "u", "l", "l">>)}

PasswordRaws == {Str(<<"S", "t", "r", "0", "n", "g", "!", "P", "a", "s", "s", "9", "9">>)}

Init ==
    /\ now = 0
    /\ nextSweep = SWEEP_INTERVAL
    /\ validationCache = EmptyMap
    /\ computed = EmptyMap
    /\ last = NoCall
    /\ calls = 0
    /\ inp = NoInput
    /\ ApiInit

Next ==
    \/ \E raw \in CpfRaws : calls < MaxCalls /\ validateCPF(raw)
    \/ \E raw \in CnpjRaws : calls < MaxCalls /\ validateCNPJ(raw)
    \/ \E raw \in EmailRaws : calls < MaxCalls /\ validateEmail(raw)
    \/ \E raw \in PasswordRaws : calls < MaxCalls /\ validatePassword(raw, NoPolicy)
    \/ clearExpiredCache
    \/ Tick

Spec == Init /\ [][Next]_vars

(***************************************************************************)
(* SpecIds: validateCPF and validateCNPJ, each applied once to an input    *)
(* drawn from IdInputs on an empty cache.                                  *)
(***************************************************************************)
DigitPairs == {<<DigitChars[i], DigitChars[j]>> : i, j \in 1..10}

CpfBlocks == {<<"0", "0", "0">>,
     <<"1", "1", "1">>,
     <<"5", "2", "9">>,
     <<"9", "8", "2">>,
     <<"2", "4", "7">>}

CnpjBlocks == {<<"1", "1", "2", "2", "2", "3">>,
     <<"3", "3", "0", "0", "0", "1">>,
     <<"1", "1", "1", "1", "1", "1">>,
     <<"0", "0", "0", "0", "0", "0">>,
     <<"0", "4", "5", "2", "1", "9">>}

\* 11 digits: three blocks of three and two trailing digits
CpfDigitInputs ==
    {a \o b \o c \o dv : a, b, c \in CpfBlocks, dv \in DigitPairs}

\* 14 digits: two blocks of six and two trailing digits
CnpjDigitInputs == {a \o b \o dv : a, b \in CnpjBlocks, dv \in DigitPairs}

\* punctuated forms, wrong lengths, repeated digits of other lengths, no digits
OtherIdInputs ==
    {<<>>,
     <<"5", "2", "9", ".", "9", "8", "2", ".", "2", "4", "7", "-", "2", "5">>,
     <<"1", "1", ".", "2", "2", "2", ".", "3", "3", "3", "/", "0", "0", "0", "1", "-", "8", "1">>,
     <<"1", "1", "1", ".", "1", "1", "1", ".", "1", "1", "1", "-", "1", "1">>,
     <<"1", "1", ".", "1", "1", "1", ".", "1", "1", "1", "/", "1", "1", "1", "1", "-", "1", "1">>,
     <<"5", "2", "9", "9", "8", "2", "2", "4", "7", "2">>,
     <<"5", "2", "9", "9", "8", "2", "2", "4", "7", "2", "5", "1">>,
     <<"1", "1", "2", "2", "2", "3", "3", "3", "0", "0", "0", "1", "8">>,
     <<"1", "1", "2", "2", "2", "3", "3", "3", "0", "0", "0", "1", "8", "1", "1">>,
     <<"1", "1", "1", "1", "1", "1", "1", "1", "1", "1">>,
     <<"1", "1", "1", "1", "1", "1", "1", "1", "1", "1", "1", "1">>,
     <<"1", "1", "1", "1", "1", "1", "1", "1", "1", "1", "1", "1", "1">>,
     <<"1", "1", "1", "1", "1", "1", "1", "1", "1", "1", "1", "1", "1", "1", "1">>,
     <<"7">>,
     <<"a", "b", "c">>,
     <<" ", "5", "2", "9", " ", "9", "8", "2", " ", "2", "4", "7", " ", "2", "5", " ">>}

IdInputs ==
    {Str(s) : s \in CpfDigitInputs \cup CnpjDigitInputs \cup OtherIdInputs}
    \cup {Null, Undefined}

InitIds ==
    /\ now = 0
    /\ nextSweep = SWEEP_INTERVAL
    /\ validationCache = EmptyMap
    /\ computed = EmptyMap
    /\ last = NoCall
    /\ calls = 0
    /\ inp \in [raw : IdInputs, policy : {NoPolicy}]
    /\ ApiInit

NextIds ==
    \/ calls = 0 /\ validateCPF(inp.raw)
    \/ calls = 0 /\ validateCNPJ(inp.raw)

SpecIds == InitIds /\ [][NextIds]_vars

(***************************************************************************)
(* Properties of the cache (checked under Spec).                           *)
(***************************************************************************)
CachedTypes == {"cpf", "cnpj", "email"}

\* what the validator of a cached type computes for raw on an empty cache
Fresh(type, raw) ==
    CASE type = "cpf" -> cpfCompute(raw)
      [] type = "cnpj" -> cnpjCompute(raw)
      [] OTHER -> emailCompute(raw)

\* C1 (as claimed): a call that is answered from the cache is never made later
\* than TTL after the entry it is answered from was created.
C1_NeverServedAfterExpiry == last.hit => last.at - last.timestamp <= CACHE_TTL

C3_ResultIsOwnComputation ==
    last.op \in CachedTypes => last.result = Fresh(last.op, last.raw)

(***************************************************************************)
(* Properties of validateCPF and validateCNPJ (checked under SpecIds).     *)
(* The check digits are restated here from their published rule, with the  *)
(* weights written out.                                                    *)
(***************************************************************************)
RECURSIVE WeightedSum(_, _, _)
WeightedSum(digits, weights, i) ==
    IF i > Len(weights) THEN 0
    ELSE DigitValue[digits[i]] * weights[i] + WeightedSum(digits, weights, i + 1)

WeightedCheckDigit(digits, weights) ==
    LET r == WeightedSum(digits, weights, 1) % 11
    IN  IF r < 2 THEN 0 ELSE 11 - r

Weights11First == <<10, 9, 8, 7, 6, 5, 4, 3, 2>>
Weights11Second == <<11, 10, 9, 8, 7, 6, 5, 4, 3, 2>>
Weights14First == <<5, 4, 3, 2, 9, 8, 7, 6, 5, 4, 3, 2>>
Weights14Second == <<6, 5, 4, 3, 2, 9, 8, 7, 6, 5, 4, 3, 2>>

\* the two check digits of a base, as characters
CheckDigitsOf(base, first, second) ==
    LET c1 == DigitChars[WeightedCheckDigit(base, first) + 1]
        c2 == DigitChars[WeightedCheckDigit(base \o <<c1>>, second) + 1]
    IN  <<c1, c2>>

AllSame(d) == Len(d) >= 1 /\ \A i \in 1..Len(d) : d[i] = d[1]

LastDigits == SelectSeq(OrEmpty(last.raw), LAMBDA c : c \in DigitSet)

Errors(r) == IF r.valid THEN {} ELSE Range(r.errors)

Punctuated11(d) ==
    <<d[1], d[2], d[3], ".", d[4], d[5], d[6], ".", d[7], d[8], d[9], "-", d[10], d[11]>>

Punctuated14(d) ==
    <<d[1], d[2], ".", d[3], d[4], d[5], ".", d[6], d[7], d[8], "/",
      d[9], d[10], d[11], d[12], "-", d[13], d[14]>>

\* C4 (as claimed): every 11-digit identifier whose trailing digits are the
\* check digits of its first nine is Valid, with normalized form XXX.XXX.XXX-YY.
C4_CorrectCheckDigitsAreValid ==
    LET d == LastDigits
    IN  (/\ last.op = "cpf"
         /\ Len(d) = 11
         /\ SubSeq(d, 10, 11) = CheckDigitsOf(SubSeq(d, 1, 9), Weights11First, Weights11Second))
            => /\ last.result.valid
               /\ last.result.normalized = Punctuated11(d)

\* C4 (amended): every 11-digit identifier that is not one digit repeated and
\* whose trailing digits are the check digits of its first nine is Valid, with
\* normalized form XXX.XXX.XXX-YY; the same identifier with a trailing digit
\* replaced by another digit is Invalid with CheckDigitMismatch alone.
C4_NonRepeatedCorrectAreValid ==
    LET d == LastDigits
        base == SubSeq(d, 1, 9)
        dv == CheckDigitsOf(base, Weights11First, Weights11Second)
    IN  (last.op = "cpf" /\ Len(d) = 11 /\ ~AllSame(base \o dv))
            => IF SubSeq(d, 10, 11) = dv
               THEN /\ last.result.valid
                    /\ last.result.normalized = Punctuated11(d)
                    /\ last.result.digits = d
               ELSE /\ ~last.result.valid
                    /\ last.result.errors = <<ERR_CHECK_DIGITS>>

\* the punctuated example of the specification, found Valid
C4_Witness ==
    /\ last.op = "cpf"
    /\ last.raw = Str(<<"5", "2", "9", ".", "9", "8", "2", ".", "2", "4", "7", "-", "2", "5">>)
    /\ last.result.valid

\* C5: 11 equal digits given to validateCPF, or 14 equal digits given to
\* validateCNPJ, are Invalid with RepeatedSequence among the reasons and
\* without CheckDigitMismatch, whatever the trailing digits are worth.
C5_RepeatedSequenceNotMismatch ==
    LET d == LastDigits
    IN  /\ (last.op = "cpf" /\ Len(d) = 11 /\ AllSame(d))
            => /\ ~last.result.valid
               /\ ERR_CPF_REPEATED \in Errors(last.result)
               /\ ERR_CHECK_DIGITS \notin Errors(last.result)
        /\ (last.op = "cnpj" /\ Len(d) = 14 /\ AllSame(d))
            => /\ ~last.result.valid
               /\ ERR_CNPJ_REPEATED \in Errors(last.result)
               /\ ERR_CHECK_DIGITS \notin Errors(last.result)

\* eleven ones, whose trailing 11 are the arithmetically correct check digits
C5_Witness ==
    /\ last.op = "cpf"
    /\ LastDigits = <<"1", "1", "1", "1", "1", "1", "1", "1", "1", "1", "1">>
    /\ CheckDigitsOf(SubSeq(LastDigits, 1, 9), Weights11First, Weights11Second) = <<"1", "1">>
    /\ ~last.result.valid

\* C6: the reasons never hold a format error together with CheckDigitMismatch;
\* when a format error applies (wrong digit count; one digit repeated over at
\* least the required count) the reasons are exactly the applicable format
\* errors; CheckDigitMismatch is reported only for the exact digit count with
\* digits not all equal.
C6_FormatErrorsExcludeMismatch ==
    LET d == LastDigits
        n == IF last.op = "cpf" THEN 11 ELSE 14
        wrongLength == IF last.op = "cpf" THEN ERR_CPF_LENGTH ELSE ERR_CNPJ_LENGTH
        repeated == IF last.op = "cpf" THEN ERR_CPF_REPEATED ELSE ERR_CNPJ_REPEATED
        applicable == (IF Len(d) # n THEN {wrongLength} ELSE {})
                      \cup (IF AllSame(d) /\ Len(d) >= n THEN {repeated} ELSE {})
        reasons == Errors(last.result)
    IN  last.op \in {"cpf", "cnpj"}
            => /\ ~(ERR_CHECK_DIGITS \in reasons /\ reasons \cap {wrongLength, repeated} # {})
               /\ applicable # {} => (~last.result.valid /\ reasons = applicable)
               /\ ERR_CHECK_DIGITS \in reasons => (Len(d) = n /\ ~AllSame(d))

\* twelve equal digits: both format errors apply and both are reported
C6_Witness ==
    /\ last.op = "cpf"
    /\ Len(LastDigits) = 12
    /\ AllSame(LastDigits)
    /\ last.result.errors = <<ERR_CPF_LENGTH, ERR_CPF_REPEATED>>

\* C7: validateCNPJ returns Valid exactly when the input has 14 digits, not all
\* equal, whose 13th and 14th are the check digits of the first 12 under the
\* two weight vectors; a Valid result carries the form XX.XXX.XXX/XXXX-YY.
C7_ValidExactlyWhenCheckDigitsMatch ==
    LET d == LastDigits
        ok == /\ Len(d) = 14
              /\ ~AllSame(d)
              /\ SubSeq(d, 13, 14) = CheckDigitsOf(SubSeq(d, 1, 12), Weights14First, Weights14Second)
    IN  last.op = "cnpj"
            => /\ last.result.valid <=> ok
               /\ last.result.valid => last.result.normalized = Punctuated14(d)
               /\ ~last.result.valid => Len(last.result.errors) > 0

\* 11.222.333/0001-81, found Valid
C7_Witness ==
    /\ last.op = "cnpj"
    /\ LastDigits = <<"1", "1", "2", "2", "2", "3", "3", "3", "0", "0", "0", "1", "8", "1">>
    /\ Len(OrEmpty(last.raw)) = 18
    /\ last.result.valid

(***************************************************************************)
(* SpecPassword: validatePassword applied once to a password and a policy  *)
(* drawn from PasswordInputs and Policies.                                 *)
(***************************************************************************)
MaxCore == 4

PwAlphabet == {"a", "A", "1", "!", " "}

RECURSIVE SeqsUpTo(_, _)
SeqsUpTo(S, n) ==
    IF n = 0 THEN {<<>>}
    ELSE LET shorter == SeqsUpTo(S, n - 1)
         IN  shorter \cup {Append(s, c) : s \in shorter, c \in S}

\* a padding that brings a short password to 9 characters and more
PwPad == <<"b", "c", "d", "e", "f", "g", "h", "i", "j">>

PwCores == SeqsUpTo(PwAlphabet, MaxCore)

KnownPasswords ==
    {<<"a", "b", "c", "d", "e", "f", "g", "h">>,
     <<"S", "t", "r", "0", "n", "g", "!", "P", "a", "s", "s", "9", "9">>,
     <<"p", "a", "s", "s", "w", "o", "r", "d">>,
     <<"P", "A", "S", "S", "W", "O", "R", "D">>,
     <<"S", "e", "n", "h", "a">>,
     <<"1", "2", "3", "4", "5", "6">>,
     <<"i", "l", "o", "v", "e", "y", "o", "u">>,
     <<"A", "d", "m", "i", "n">>,
     <<"q", "w", "e", "r", "t", "y", "1">>,
     <<"A", "b", "1", "!", "\n", "\n", "\n", "x", "y">>,
     <<"A", "b", "1", "!", "x", "x", "x", "y">>,
     <<"A", "b", "1", "!", "x", "x", "y", "y">>,
     <<" ", "A", "b", "1", "!", "x", "y", "z", "w">>,
     <<"A", "b", "1", "!", "x", "y", "z", "w", "\t">>,
     <<"A", "b", "1", "!", "x", "y", " ", "z", "w">>,
     <<"A", "b", "c", "d", "e", "f", "g", "h", "1", "2", "3", "4">>,
     <<"A", "B", "C", "D", "E", "F", "G", "H", "1", "2", "3", "4", "!">>,
     <<"a", "b", "c", "1", "2", "3">>,
     <<"A", "b", "c", "1", "2", "3", "!", "?">>}

PasswordInputs ==
    {Str(s) : s \in PwCores \cup {PwPad \o c : c \in PwCores} \cup KnownPasswords}
    \cup {Null, Undefined}

PolicyFlags == {"upper", "lower", "number", "symbol", "forbidCommon"}

Policies ==
    {NoPolicy}
    \cup [PolicyFlags -> BOOLEAN]
    \cup {[f \in {"minLength"} |-> n] : n \in {0, 4, 12}}
    \cup {[f \in {"maxLength"} |-> n] : n \in {3, 8, 12}}
    \cup {[f \in {"minLength", "maxLength"} |-> IF f = "minLength" THEN 4 ELSE 3]}
    \cup {[f \in {"maxConsecutive"} |-> 5]}
    \cup {[f \in {"symbol"} |-> FALSE], [f \in {"upper", "number"} |-> FALSE]}

InitPassword ==
    /\ now = 0
    /\ nextSweep = SWEEP_INTERVAL
    /\ validationCache = EmptyMap
    /\ computed = EmptyMap
    /\ last = NoCall
    /\ calls = 0
    /\ inp \in [raw : PasswordInputs, policy : Policies]
    /\ ApiInit

NextPassword == calls = 0 /\ validatePassword(inp.raw, inp.policy)

SpecPassword == InitPassword /\ [][NextPassword]_vars

(***************************************************************************)
(* Properties of validatePassword (checked under SpecPassword).            *)
(***************************************************************************)
LastPassword == OrEmpty(last.raw)

Has(s, S) == \E i \in 1..Len(s) : s[i] \in S

Letter == UpperSet \cup LowerSet

\* C8: Valid or Invalid, the result carries length, the number of characters
\* of the password, and strength = 2*(length >= 12) + 1*(an uppercase and a
\* lowercase letter) + 1*(a digit) + 2*(a character that is no letter and no
\* digit), a number in 0..6 that depends on the password alone.
C8_StrengthAlwaysComputed ==
    LET s == LastPassword
        score == (IF Len(s) >= 12 THEN 2 ELSE 0)
                 + (IF Has(s, UpperSet) /\ Has(s, LowerSet) THEN 1 ELSE 0)
                 + (IF Has(s, DigitSet) THEN 1 ELSE 0)
                 + (IF \E i \in 1..Len(s) : s[i] \notin Letter \cup DigitSet THEN 2 ELSE 0)
    IN  last.op = "password"
            => /\ {"strength", "length"} \subseteq DOMAIN last.result
               /\ last.result.length = Len(s)
               /\ last.result.strength = score
               /\ last.result.strength \in 0..6

\* an Invalid result whose only non-alphanumeric character is a space
C8_Witness ==
    /\ last.op = "password"
    /\ ~last.result.valid
    /\ Has(LastPassword, {" "})
    /\ ~Has(LastPassword, SymbolSet)
    /\ last.result.strength >= 2
    /\ "symbol" \in DOMAIN last.policy

\* three equal characters in a row, whatever the character
HasRunOfThree(s) == \E i \in 1..(Len(s) - 2) : s[i + 1] = s[i] /\ s[i + 2] = s[i]

\* the reasons the policy checks call for, one per violated check
ExpectedPasswordReasons(s, config, run) ==
    (IF Len(s) < config.minLength THEN {ErrPwMin(config.minLength)} ELSE {})
    \cup (IF Len(s) > config.maxLength THEN {ErrPwMax(config.maxLength)} ELSE {})
    \cup (IF config.requireUpper /\ ~Has(s, UpperSet) THEN {ERR_PW_UPPER} ELSE {})
    \cup (IF config.requireLower /\ ~Has(s, LowerSet) THEN {ERR_PW_LOWER} ELSE {})
    \cup (IF config.requireNumber /\ ~Has(s, DigitSet) THEN {ERR_PW_NUMBER} ELSE {})
    \cup (IF config.requireSymbol /\ ~Has(s, SymbolSet) THEN {ERR_PW_SYMBOL} ELSE {})
    \cup (IF run THEN {ErrPwConsecutive(config.maxConsecutive)} ELSE {})
    \cup (IF config.forbidCommon /\ toLowerCase(s) \in commonPasswords
          THEN {ERR_PW_COMMON} ELSE {})
    \cup (IF Len(s) > 0 /\ (s[1] \in SpaceSet \/ s[Len(s)] \in SpaceSet)
          THEN {ERR_PW_SPACE} ELSE {})

\* C9 (as claimed): the result is Invalid exactly when a policy check is
\* violated, and its reasons hold one error per violated check, a run of three
\* or more equal consecutive characters being one of the checks; with the
\* default policy "abcdefgh" misses uppercase, number and symbol and
\* "Str0ng!Pass99" is Valid.
C9_InvalidExactlyWhenCheckViolated ==
    LET s == LastPassword
        expected == ExpectedPasswordReasons(s, pwConfig(last.policy), HasRunOfThree(s))
    IN  last.op = "password"
            => /\ ~last.result.valid <=> expected # {}
               /\ Errors(last.result) = expected
               /\ ~last.result.valid => Len(last.result.errors) = Cardinality(expected)
               /\ (s = <<"a", "b", "c", "d", "e", "f", "g", "h">> /\ last.policy = NoPolicy)
                    => expected = {ERR_PW_UPPER, ERR_PW_NUMBER, ERR_PW_SYMBOL}
               /\ (s = <<"S", "t", "r", "0", "n", "g", "!", "P", "a", "s", "s", "9", "9">>
                   /\ last.policy = NoPolicy) => last.result.valid

(***************************************************************************)
(* Property of validateEmail (checked under Spec).                         *)
(***************************************************************************)
\* the text before the first @, the whole text when there is none
LocalPartOf(s) ==
    IF \E i \in 1..Len(s) : s[i] = "@"
    THEN SubSeq(s, 1, (CHOOSE i \in 1..Len(s) : s[i] = "@" /\ \A j \in 1..(i - 1) : s[j] # "@") - 1)
    ELSE s

\* C10 (as claimed): on the trimmed, lower-cased input the reasons of
\* validateEmail are exactly those of Empty, TooLong, LocalPartTooLong and
\* FormatInvalid whose condition holds, the result is Valid with that text
\* exactly when none holds, and an absent input gets a result too.
C10_EmailReasonsExact ==
    LET s == toLowerCase(trim(OrEmpty(last.raw)))
        expected == (IF Len(s) = 0 THEN {ERR_EMAIL_EMPTY} ELSE {})
                    \cup (IF Len(s) > 254 THEN {ERR_EMAIL_LONG} ELSE {})
                    \cup (IF Len(LocalPartOf(s)) > 64 THEN {ERR_EMAIL_LOCAL_LONG} ELSE {})
                    \cup (IF ~emailRegexTest(s) THEN {ERR_EMAIL_FORMAT} ELSE {})
    IN  last.op = "email"
            => /\ Errors(last.result) = expected
               /\ last.result.valid <=> expected = {}
               /\ last.result.valid => last.result.normalized = s

(***************************************************************************)
(* Properties of the sweep (checked under Spec).                           *)
(***************************************************************************)
\* C12: each run of the sweep removes exactly the entries with
\* now - timestamp > CACHE_TTL, leaves every other entry as it was (same key,
\* same result, same timestamp), and the cache it leaves holds no entry older
\* than CACHE_TTL.
C12_SweepRemovesExactlyExpired ==
    [][nextSweep' # nextSweep =>
        /\ DOMAIN validationCache' =
                {k \in DOMAIN validationCache :
                    now - validationCache[k].timestamp <= 5 * 60 * 1000}
        /\ \A k \in DOMAIN validationCache' : validationCache'[k] = validationCache[k]
        /\ \A k \in DOMAIN validationCache' :
                now' - validationCache'[k].timestamp <= 5 * 60 * 1000]_vars

\* a sweep has just run, one computed entry is gone and another is still held
C12_Witness ==
    /\ nextSweep = now + SWEEP_INTERVAL
    /\ validationCache # EmptyMap
    /\ \E k \in DOMAIN computed :
          /\ k[1] \in CachedTypes
          /\ getCacheKey(k[1], k[2]) \notin DOMAIN validationCache

\* when the result now held under the key of (type, raw) was computed
WrittenAt(type, raw) ==
    LET writers == {k \in DOMAIN computed :
                      /\ k[1] \in CachedTypes
                      /\ getCacheKey(k[1], k[2]) = getCacheKey(type, raw)}
        latest == CHOOSE k \in writers : \A j \in writers : computed[j].at <= computed[k].at
    IN  computed[latest].at

\* C13: a hit leaves the cache as it was, timestamp included, and with the sweep
\* running every SWEEP_INTERVAL no call returns a cached result computed more
\* than CACHE_TTL + SWEEP_INTERVAL earlier, however many hits came before.
C13_BoundedStaleness ==
    /\ [](last.hit =>
            /\ last.timestamp = WrittenAt(last.op, last.raw)
            /\ last.at - WrittenAt(last.op, last.raw) <= 5 * 60 * 1000 + 60 * 1000)
    /\ [][(calls' # calls /\ last'.hit) => validationCache' = validationCache]_vars

\* a third call in a row hits an entry that is CACHE_TTL + SWEEP_INTERVAL old
C13_Witness ==
    /\ last.hit
    /\ calls >= 3
    /\ Cardinality(DOMAIN computed) = 1
    /\ last.at - last.timestamp = CACHE_TTL + SWEEP_INTERVAL

(***************************************************************************)
(* SpecBatch: Spec together with POST /validate/batch.  Node runs one      *)
(* callback at a time: each validator body is synchronous (validateEmail   *)
(* is declared async and awaits nothing, so its body runs to its return    *)
(* inside the call and the awaiting handler only resumes with the value    *)
(* that was returned), so requests and the sweep interleave as whole       *)
(* steps.  The items of a batch are started in array order by values.map.  *)
(***************************************************************************)
MAX_BATCH == 20

ERR_BATCH_VALUES == "Campo values deve ser um array com no maximo 20 itens"
ERR_BATCH_INTERNAL == "Erro interno ao processar validacao em lote"
ERR_DETECT_TYPE == "ReferenceError: detectType is not defined"

\* The callback of values.map.  Its first statement calls detectType, which
\* the file neither declares nor imports: the async callback rejects there,
\* before the switch that calls the validators.
batchItem(item) == [rejected |-> TRUE, reason |-> ERR_DETECT_TYPE]

\* body is req.body: isArray is Array.isArray(values)
batchResponse(body) ==
    LET values == body.values
    IN
    IF ~body.isArray \/ Len(values) > MAX_BATCH
    THEN [status |-> 400, valid |-> FALSE, error |-> ERR_BATCH_VALUES]
    ELSE IF \E i \in 1..Len(values) : batchItem(values[i]).rejected
         THEN [status |-> 500, valid |-> FALSE, error |-> ERR_BATCH_INTERNAL]
         ELSE [status |-> 200, results |-> [i \in 1..Len(values) |-> batchItem(values[i])],
               total |-> Len(values), valid |-> 0]

validateBatch(body) ==
    /\ last' = [op |-> "batch", raw |-> Undefined, policy |-> NoPolicy,
                result |-> batchResponse(body), hit |-> FALSE,
                timestamp |-> now, at |-> now]
    /\ calls' = calls + 1
    /\ UNCHANGED <<now, nextSweep, validationCache, computed, inp, apiVars>>

BatchItems ==
    {[type |-> "email", value |-> raw] : raw \in EmailRaws}
    \cup {[type |-> "cpf", value |-> raw] : raw \in CpfRaws}

BatchInputs ==
    {[isArray |-> FALSE, values |-> << >>]}
    \cup {[isArray |-> TRUE, values |-> v] :
            v \in {<< >>, [i \in 1..(MAX_BATCH + 1) |-> [type |-> "cpf", value |-> Null]]}
                  \cup {<<a>> : a \in BatchItems}
                  \cup {<<a, b>> : a \in BatchItems, b \in BatchItems}}

NextBatch ==
    \/ \E raw \in CpfRaws : calls < MaxCalls /\ validateCPF(raw)
    \/ \E raw \in EmailRaws : calls < MaxCalls /\ validateEmail(raw)
    \/ \E body \in BatchInputs : calls < MaxCalls /\ validateBatch(body)
    \/ clearExpiredCache
    \/ Tick

SpecBatch == Init /\ [][NextBatch]_vars

DAY_MS == 24 * 60 * 60 * 1000

HOUR_MS == 60 * 60 * 1000

\* 2024-12-31
CLOCK_EPOCH_DAY == 20088

ZONE_SAO_PAULO ==
    <<"A", "m", "e", "r", "i", "c", "a", "/", "S", "a", "o", "_", "P", "a", "u", "l", "o">>

ZONE_UTC == <<"U", "T", "C">>

ZONE_UNKNOWN == <<"M", "a", "r", "s", "/", "P", "h", "o", "b", "o", "s">>

\* The time zones Intl.DateTimeFormat accepts here, with their offset from UTC
\* (Sao Paulo has had no daylight saving time since 2019).
TimeZoneOffset == (ZONE_SAO_PAULO :> (0 - 3 * HOUR_MS)) @@ (ZONE_UTC :> 0)

\* getFullYear(), getMonth() + 1 and getDate() of the day numbered z
\* (proleptic Gregorian calendar, days counted from 1970-01-01)
CivilFromDays(z) ==
    LET d == z + 719468
        era == d \div 146097
        doe == d - era * 146097
        yoe == (doe - doe \div 1460 + doe \div 36524 - doe \div 146096) \div 365
        doy == doe - (365 * yoe + yoe \div 4 - yoe \div 100)
        mp == (5 * doy + 2) \div 153
        dd == doy - (153 * mp + 2) \div 5 + 1
        mm == IF mp < 10 THEN mp + 3 ELSE mp - 9
        yyyy == yoe + era * 400 + (IF mm <= 2 THEN 1 ELSE 0)
    IN  [yyyy |-> yyyy, mm |-> mm, dd |-> dd]

ERR_TIME_ZONE == "Fuso horario invalido"
ERR_TIME_ZONE_HINT == "Verifique o parametro timeZone"
ERR_INTERNAL == "Erro interno do servidor"
ERR_NEXT == "next is not defined"

\* An error message is the sequence of its pieces; includes(message, piece)
\* is message.includes(piece) for a piece that is one of them.
includes(message, piece) == \E i \in 1..Len(message) : message[i] = piece

\* DateUtils.nowInTimeZone at the instant t: the wall-clock date of the zone, or
\* the Error thrown by its catch when Intl rejects the zone.
nowInTimeZone(timeZone, t) ==
    IF timeZone \in DOMAIN TimeZoneOffset
    THEN [thrown |-> FALSE,
          date |-> CivilFromDays(CLOCK_EPOCH_DAY + (t + TimeZoneOffset[timeZone]) \div DAY_MS)]
    ELSE [thrown |-> TRUE, message |-> <<ERR_TIME_ZONE, ": ", timeZone>>]

RECURSIVE NumberToString(_)
NumberToString(n) ==
    IF n < 10 THEN <<DigitToChar(n)>>
    ELSE NumberToString(n \div 10) \o <<DigitToChar(n % 10)>>

\* String(n).padStart(2, '0')
pad2(n) ==
    LET str == NumberToString(n)
    IN  IF Len(str) < 2 THEN <<"0">> \o str ELSE str

\* OBS, as loaded by carregarDatas: a sample of the data files
OBS ==
    << [date |-> <<"-", "-", "0", "1", "-", "0", "1">>, nome |-> "Confraternizacao Universal",
        tipo |-> "feriado"],
       [date |-> <<"-", "-", "1", "2", "-", "3", "1">>, name |-> "Vespera de Ano Novo"],
       [date |-> <<"-", "1", "2", "-", "3", "1">>, nome |-> "Dia de Sao Silvestre"],
       [date |-> <<"3", "1", "/", "1", "2">>, nome |-> "Reveillon"] >>

Field(item, field, default) ==
    IF field \in DOMAIN item THEN item[field] ELSE default

normalizeItem(item) ==
    [date |-> item.date,
     nome |-> Field(item, "nome", Field(item, "name", "Nome nao disponivel")),
     tipo |-> Field(item, "tipo", "comemoracao"),
     pais |-> Field(item, "pais", "null"),
     estado |-> Field(item, "estado", "null"),
     tags |-> Field(item, "tags", << >>),
     fonte |-> Field(item, "fonte", Field(item, "note", "Fonte nao especificada")),
     descricao |-> Field(item, "descricao", "null")]

\* the match of /^--?(\d{2})-(\d{2})$/ on a date, as <<month, day>>, or << >>
obsDateMatch(date) ==
    LET body == IF Len(date) >= 2 /\ date[1] = "-" /\ date[2] = "-" THEN SubSeq(date, 3, Len(date))
                ELSE IF Len(date) >= 1 /\ date[1] = "-" THEN SubSeq(date, 2, Len(date))
                ELSE << >>
    IN  IF /\ Len(body) = 5
           /\ body[3] = "-"
           /\ \A i \in {1, 2, 4, 5} : IsDigit(body[i])
        THEN <<DigitValue[body[1]] * 10 + DigitValue[body[2]],
               DigitValue[body[4]] * 10 + DigitValue[body[5]]>>
        ELSE << >>

observancesForDay(dd, mm) ==
    LET keep(o) == obsDateMatch(o.date) = <<mm, dd>>
        kept == SelectSeq(OBS, keep)
    IN  [i \in 1..Len(kept) |-> normalizeItem(kept[i])]

CACHE_DURATION == 5 * 60 * 1000

\* application/x-www-form-urlencoded serialisation of one character
formEncodeChar(c) ==
    IF IsAlnum(c) \/ c \in {"*", "-", ".", "_"} THEN <<c>>
    ELSE IF c = " " THEN <<"+">>
    ELSE IF c = "/" THEN <<"%", "2", "F">>
    ELSE IF c = ":" THEN <<"%", "3", "A">>
    ELSE <<"%", "?", "?">>

RECURSIVE formEncode(_)
formEncode(str) ==
    IF str = << >> THEN << >> ELSE formEncodeChar(Head(str)) \o formEncode(Tail(str))

PATH_HOJE == <<"/", "a", "p", "i", "/", "h", "o", "j", "e">>

\* new URLSearchParams(req.query).toString() for a query with at most timeZone
queryString(query) ==
    IF "timeZone" \in DOMAIN query
    THEN <<"t", "i", "m", "e", "Z", "o", "n", "e", "=">> \o formEncode(query.timeZone)
    ELSE << >>

getResponseCacheKey(req) == req.path \o <<"?">> \o queryString(req.query)

clearExpiredResponses(cache, t) ==
    [k \in {key \in DOMAIN cache : ~(t - cache[key].timestamp > CACHE_DURATION)} |-> cache[k]]

\* errorHandler(err, req, res, next): status and body of its answer
errorHandler(err) ==
    IF includes(err.message, ERR_TIME_ZONE)
    THEN [status |-> 400, body |-> [error |-> ERR_TIME_ZONE, message |-> ERR_TIME_ZONE_HINT]]
    ELSE [status |-> 500, body |-> [error |-> ERR_INTERNAL]]

\* the parameters of the route handler of /api/hoje: (req, res) => { ... }
HOJE_HANDLER_PARAMS == {"req", "res"}

\* The route handler of /api/hoje at the instant t.  Its outcome is the answer
\* it sends and the cache it leaves, or the exception that leaves it: the
\* catch block calls next(error), and next is not among the parameters of the
\* handler nor declared in the module, so the call throws a ReferenceError.
hojeHandler(req, cache, t) ==
    LET timeZone == Field(req.query, "timeZone", ZONE_SAO_PAULO)
        today == nowInTimeZone(timeZone, t)
    IN  IF ~today.thrown
        THEN LET mm == today.date.mm
                 dd == today.date.dd
                 yyyy == today.date.yyyy
                 observances == observancesForDay(dd, mm)
                 data == [date |-> NumberToString(yyyy) \o <<"-">> \o pad2(mm) \o <<"-">> \o pad2(dd),
                          formatted |-> pad2(mm) \o <<"-">> \o pad2(dd),
                          timeZone |-> timeZone,
                          itens |-> observances,
                          count |-> Len(observances)]
                 cacheKey == getResponseCacheKey(req)
             IN  [thrown |-> FALSE, status |-> 200, body |-> data,
                  cache |-> [k \in DOMAIN cache \cup {cacheKey} |->
                               IF k = cacheKey THEN [data |-> data, timestamp |-> t]
                               ELSE cache[k]]]
        ELSE IF "next" \in HOJE_HANDLER_PARAMS
             THEN [thrown |-> TRUE, message |-> today.message, cache |-> cache]
             ELSE [thrown |-> TRUE, message |-> <<"ReferenceError", ": ", ERR_NEXT>>,
                   cache |-> cache]

\* GET /api/hoje: cacheMiddleware, then the route handler, then errorHandler
\* for what the handler threw.
apiHoje(query) ==
    LET req == [path |-> PATH_HOJE, query |-> query]
        cacheKey == getResponseCacheKey(req)
    IN  /\ IF cacheKey \in DOMAIN responseCache
           THEN /\ response' = [op |-> "hoje", query |-> query, at |-> now, xCache |-> "HIT",
                               status |-> 200, body |-> responseCache[cacheKey].data]
                /\ UNCHANGED responseCache
           ELSE LET out == hojeHandler(req, responseCache, now)
                    answer == IF out.thrown THEN errorHandler(out) ELSE out
                IN  /\ response' = [op |-> "hoje", query |-> query, at |-> now,
                                    xCache |-> "MISS", status |-> answer.status,
                                    body |-> answer.body]
                    /\ responseCache' = out.cache
        /\ UNCHANGED <<now, nextCacheSweep, engineVars>>

\* setInterval(clearExpiredCache, 60 * 1000)
clearExpiredResponseCache ==
    /\ now >= nextCacheSweep
    /\ responseCache' = clearExpiredResponses(responseCache, now)
    /\ nextCacheSweep' = nextCacheSweep + 60 * 1000
    /\ UNCHANGED <<now, response, engineVars>>

(***************************************************************************)
(* SpecHoje: requests to /api/hoje, the clock and the sweep, over the      *)
(* minutes around midnight of 2024-12-31 in Sao Paulo.                     *)
(***************************************************************************)
\* 23:56 of 2024-12-31 in Sao Paulo, 02:56 UTC of the next day
HojeStart == DAY_MS + 2 * HOUR_MS + 56 * 60 * 1000

\* the last instant of the clock: HojeStart + 6 min
MaxHojeTime == 97320000

HOJE_TICK == 60 * 1000

HojeQueries ==
    {EmptyMap} \cup {[f \in {"timeZone"} |-> z] : z \in {ZONE_SAO_PAULO, ZONE_UTC, ZONE_UNKNOWN}}

\* the clock advances; a due sweep runs before it advances again
TickHoje ==
    /\ now < nextCacheSweep
    /\ now + HOJE_TICK <= MaxHojeTime
    /\ now' = now + HOJE_TICK
    /\ UNCHANGED <<engineVars, apiVars>>

InitHoje ==
    /\ now = HojeStart
    /\ nextSweep = SWEEP_INTERVAL
    /\ validationCache = EmptyMap
    /\ computed = EmptyMap
    /\ last = NoCall
    /\ calls = 0
    /\ inp = NoInput
    /\ responseCache = EmptyMap
    /\ nextCacheSweep = HojeStart + 60 * 1000
    /\ response = NoResponse

NextHoje ==
    \/ \E query \in HojeQueries : apiHoje(query)
    \/ clearExpiredResponseCache
    \/ TickHoje

SpecHoje == InitHoje /\ [][NextHoje]_vars

\* the time zone a response answers for
ZoneOf(query) == Field(query, "timeZone", ZONE_SAO_PAULO)

\* C14 (as claimed): every 200 response of GET /api/hoje, HIT or MISS, carries
\* the date that is current in the requested time zone when it is sent and the
\* observances of that day.
C14_ResponseIsOfToday ==
    (response.op = "hoje" /\ response.status = 200) =>
        LET today == CivilFromDays(CLOCK_EPOCH_DAY
                        + (response.at + TimeZoneOffset[ZoneOf(response.query)]) \div DAY_MS)
        IN  /\ response.body.date =
                  NumberToString(today.yyyy) \o <<"-">> \o pad2(today.mm) \o <<"-">> \o pad2(today.dd)
            /\ response.body.itens = observancesForDay(today.dd, today.mm)

\* C15 (as claimed): a request whose timeZone is not a valid time zone is
\* answered 400 with error 'Fuso horario invalido', never 500, and nothing is
\* stored in the response cache for it.
C15_InvalidTimeZoneIs400 ==
    /\ (response.op = "hoje" /\ ZoneOf(response.query) \notin DOMAIN TimeZoneOffset) =>
          /\ response.status = 400
          /\ response.body.error = ERR_TIME_ZONE
    /\ \A query \in HojeQueries :
          ZoneOf(query) \notin DOMAIN TimeZoneOffset =>
              getResponseCacheKey([path |-> PATH_HOJE, query |-> query])
                  \notin DOMAIN responseCache

====
